---- MODULE Spec2Model ----
(***************************************************************************)
(* Inter-hart coordination of the prototyper SBI firmware: the IPI device  *)
(* dispatch path (sbi/ipi.rs), the remote-fence broadcast / rendezvous     *)
(* built on it, the hart state machine that gates both, and the timer      *)
(* facade (set_timer, clear) over the same device.                         *)
(*                                                                         *)
(* One process per hart.  Every access to shared memory (an atomic of a    *)
(* hart context, a register of the IPI device, the HSM status word) is one *)
(* step; the local computation that follows it up to the next shared       *)
(* access belongs to the same step.                                        *)
(***************************************************************************)
EXTENDS Integers, FiniteSets, Sequences, TLC

\* ipi.rs:13 and ipi.rs:15
IPI_TYPE_SSOFT == 1
IPI_TYPE_FENCE == 2

\* SbiIpi.max_hart_id: the upper end of every 0..=max_hart_id scan.
max_hart_id == 3

\* The harts of the topology: those remote_hsm / remote_rfence know.
\* Id 2 lies inside the scan but is no hart of the system; hart 3 is the
\* last id of the scan.
Harts == {0, 1, 3}

\* A HartMask may name any id, also ids past max_hart_id.
MaskIds == 0 .. (max_hart_id + 1)

\* Calls (send_ipi, send_ipi_by_fence) the system serves in one run.
MaxCalls == 2
\* Lifecycle transitions that happen while calls are served, in one run.
MaxHsmSteps == 1
\* HSM transition attempts in one run of the state machine alone.
MaxHsmAttempts == 3
\* Cap of the device's pulse counter (a history variable).
MaxPulses == 3

\* set_timer and clear_all calls in one run.
MaxTimerCalls == 2

\* RFenceContext values (the operation a fence asks for).
Ctxs == {1, 2}

\* The hart masks callers pass: every subset of the topology, and two masks
\* that name ids that are no harts (inside and past the scan).
NoHarts == MaskIds \ Harts
Masks == (SUBSET Harts) \cup {NoHarts, NoHarts \cup {max_hart_id}}

\* The harts whose supervisor issues calls; the third is a target only.
Callers == {0, 1}

None == [none |-> TRUE]

\* A u64 as four 16-bit limbs, the most significant first.
LimbMax == 65535
U64_MAX == <<LimbMax, LimbMax, LimbMax, LimbMax>>
U64_ZERO == <<0, 0, 0, 0>>

\* The stime_value arguments of set_timer.
Deadlines == {U64_ZERO, <<0, 0, 1, 7>>, U64_MAX}

\* The harts whose ISA has the Sstc extension.
SstcHarts == {1}

\* rustsbi::SbiRet
SBI_SUCCESS == 0
SBI_ERR_INVALID_PARAM == -3
SbiRet_success(v) == [error |-> SBI_SUCCESS, value |-> v]
SbiRet_invalid_param == [error |-> SBI_ERR_INVALID_PARAM, value |-> 0]

VARIABLES
    hsm_state,    \* HSM: lifecycle state of each hart
    ipi_type,     \* HartContext.ipi_type: the event mask of each hart (u8)
    msip,         \* IPI device: software-interrupt-pending bit of each hart
    rfence_slot,  \* the fence request addressed to each hart, or None
    sync_count,   \* rendezvous counter of each hart
    pc,           \* where each hart is
    hart_mask,    \* argument of the call a hart is serving
    ctx,          \* RFenceContext argument of send_ipi_by_fence
    hart_id,      \* loop variable of the 0..=max_hart_id scan
    trap_ipi,     \* trap handler local: the value get_and_reset_ipi_type gave
    ret,          \* the SbiRet a call hands to the supervisor, until it resumes
    calls,        \* calls started so far
    hsm_steps,    \* HSM transition attempts so far
    hsm_cas,      \* history: the last HSM transition attempt and its result
    pulses,       \* history: set_msip calls on a hart since its last trap entry
    ored,         \* history: bits OR-ed into a hart's mask since its last reset
    published,    \* history: targets a fence call has published to and counted
    acks,         \* history: consumptions of initiator i's descriptor by hart t
    sent,         \* history: harts this send_ipi call OR-ed SSOFT into
    elig,         \* history: targets HSM-eligible when this call's scan checked them
    inel,         \* history: targets not HSM-eligible when the scan checked them
    elig0,        \* history: targets of the mask HSM-eligible when the call began
    count_op,     \* history: first operation on a hart's counter since its fence began
    returned,     \* history: harts that have returned from a send_ipi_by_fence
    mtimecmp,     \* IPI device: machine timer compare value of each hart (u64)
    stimecmp,     \* stimecmp CSR of each hart (u64)
    mip_stimer,   \* mip.STIP of each hart: supervisor timer interrupt pending
    mie_mtimer,   \* mie.MTIE of each hart: machine timer interrupt enabled
    timer_calls,  \* set_timer and clear_all calls started so far
    set_timer_arg \* history: hart and stime_value of the last set_timer call

vars == <<hsm_state, ipi_type, msip, rfence_slot, sync_count, pc, hart_mask,
          ctx, hart_id, trap_ipi, ret, calls, hsm_steps, hsm_cas, pulses, ored,
          published, acks, sent, elig, inel, elig0, count_op, returned,
          mtimecmp, stimecmp, mip_stimer, mie_mtimer, timer_calls, set_timer_arg>>

shared == <<ipi_type, msip, rfence_slot, sync_count>>
hsmVars == <<hsm_state, hsm_steps, hsm_cas>>
history == <<pulses, ored, published, acks, sent, elig, inel, elig0, count_op, returned>>
timerVars == <<mtimecmp, stimecmp, mip_stimer, mie_mtimer, timer_calls, set_timer_arg>>

----------------------------------------------------------------------------
\* u8 bit operations on the event mask (two bits are in use).

Bits(n) == {b \in {IPI_TYPE_SSOFT, IPI_TYPE_FENCE} : (n \div b) % 2 = 1}

FromBits(S) == (IF IPI_TYPE_SSOFT \in S THEN IPI_TYPE_SSOFT ELSE 0)
             + (IF IPI_TYPE_FENCE \in S THEN IPI_TYPE_FENCE ELSE 0)

BitOr(a, b) == FromBits(Bits(a) \cup Bits(b))

BitAnd(a, b) == FromBits(Bits(a) \cap Bits(b))

----------------------------------------------------------------------------
\* Hart state machine (sbi/hsm).

HsmStates == {"Stopped", "StartPending", "Started", "StopPending",
              "SuspendPending", "Suspended", "ResumePending"}

\* The defined transitions, each a compare-and-swap from its source state.
HsmEdges == {<<"Stopped", "StartPending">>, <<"StartPending", "Started">>,
             <<"Started", "StopPending">>, <<"StopPending", "Stopped">>,
             <<"Started", "SuspendPending">>, <<"SuspendPending", "Suspended">>,
             <<"Suspended", "ResumePending">>, <<"ResumePending", "Started">>}

\* remote_hsm(hart_id): Some(handle) only for a hart of the topology
\* (an Option as a sequence of at most one element).
remote_hsm(h) == IF h \in Harts THEN <<h>> ELSE <<>>

\* rfence::remote_rfence(hart_id): likewise.
remote_rfence(h) == IF h \in Harts THEN <<h>> ELSE <<>>

\* HartStateHandle::allow_ipi
allow_ipi(s) == s = "Started"

\* Faulty variant: the compare of the compare-and-swap is dropped.
hsm_cas_store(cur, from, to) == to

\* compare_exchange(from, to) on the stored state: the value it leaves.
hsm_cas_new(cur, from, to) == IF cur = from THEN to ELSE cur

\* A transition attempt on hart h.  A hart changes its own state only
\* between calls; hart_start comes from another hart at any time.
HsmCas(h, from, to) ==
    /\ <<from, to>> \in HsmEdges
    /\ from = "Stopped" \/ pc[h] = "idle"
    /\ hsm_state' = [hsm_state EXCEPT ![h] = hsm_cas_new(@, from, to)]
    /\ hsm_steps' = hsm_steps + 1
    /\ UNCHANGED <<shared, timerVars, pc, hart_mask, ctx, hart_id, trap_ipi, ret, calls,
                   history>>

\* A transition attempt, whatever the state it finds, with its result.
HsmAttempt(h, from, to) ==
    /\ hsm_steps < MaxHsmAttempts
    /\ HsmCas(h, from, to)
    /\ hsm_cas' = [hart |-> h, from |-> from, to |-> to, ok |-> (hsm_state[h] = from)]

\* A transition of hart h out of its current state.
HsmTransition(h, from, to) ==
    /\ hsm_steps < MaxHsmSteps
    /\ hsm_state[h] = from
    /\ HsmCas(h, from, to)
    /\ UNCHANGED hsm_cas

----------------------------------------------------------------------------
\* The scan `for hart_id in 0..=self.max_hart_id` of both senders.

\* Faulty variant: the scan ends before max_hart_id (0..max_hart_id).
ScanIds_exclusive(m, from) ==
    {t \in from .. (max_hart_id - 1) : t \in m /\ remote_hsm(t) # <<>>}

\* The ids of the scan, from `from` on, that pass has_bit and remote_hsm.
ScanIds(m, from) == {t \in from .. max_hart_id : t \in m /\ remote_hsm(t) # <<>>}

End == max_hart_id + 1

Min(S) == CHOOSE x \in S : \A y \in S : x <= y

\* The next id at which the scan reaches the allow_ipi check, or End.
NextTarget(m, from) == IF ScanIds(m, from) = {} THEN End ELSE Min(ScanIds(m, from))

\* Faulty variant: only a Stopped hart is taken as not eligible.
hsm_allows_unless_stopped(t) == hsm_state[t] # "Stopped"

\* Faulty variant: the allow_ipi check is dropped.
hsm_allows_always(t) == TRUE

\* `if !hsm.allow_ipi() { continue; }` of send_ipi and send_ipi_by_fence.
hsm_allows(t) == allow_ipi(hsm_state[t])

\* Faulty variant: a plain store of the event bit.
fetch_or_store(old, event_id) == event_id

\* set_ipi_type: ipi_type.fetch_or(event_id); the value the atomic is left with.
fetch_or(old, event_id) == BitOr(old, event_id)

\* Faulty variant: the test of the previous mask is inverted.
need_msip_inverted(old) == old # 0

\* Faulty variant: the pulse is sent whatever the previous mask was.
need_msip_always(old) == TRUE

\* `if set_ipi_type(..) == 0 { ipi_dev.set_msip(hart_id) }`
need_msip(old) == old = 0

\* Faulty variant: the swap leaves the FENCE bit behind.
swap_zero_partial(old) == BitAnd(old, IPI_TYPE_FENCE)

\* get_and_reset_ipi_type: ipi_type.swap(0); the value the atomic is left with.
swap_zero(old) == 0

Inc(n) == IF n < MaxPulses THEN n + 1 ELSE n

\* ipi_dev.set_msip(t), with the device's pulse count.
SetMsip(t) ==
    /\ msip' = [msip EXCEPT ![t] = TRUE]
    /\ pulses' = [pulses EXCEPT ![t] = Inc(@)]

\* The locals of a hart that is in no call.
Idle(h) ==
    /\ pc' = [pc EXCEPT ![h] = "idle"]
    /\ hart_mask' = [hart_mask EXCEPT ![h] = {}]
    /\ ctx' = [ctx EXCEPT ![h] = 0]
    /\ hart_id' = [hart_id EXCEPT ![h] = 0]

----------------------------------------------------------------------------
\* SbiIpi::send_ipi

\* Faulty variant: an id of the mask that is no eligible hart is reported.
send_ipi_ret_checked(m) == IF m \subseteq Harts THEN SbiRet_success(0) ELSE SbiRet_invalid_param

\* `SbiRet::success(0)`
send_ipi_ret(m) == SbiRet_success(0)

\* The scan of send_ipi moves on from id t.
IpiAdvance(h, t) ==
    /\ hart_id' = [hart_id EXCEPT ![h] = NextTarget(hart_mask[h], t + 1)]
    /\ pc' = [pc EXCEPT ![h] = IF NextTarget(hart_mask[h], t + 1) = End
                               THEN "ipi_ret" ELSE "ipi_check"]

EligibleNow(m) == {t \in m : t \in Harts /\ t <= max_hart_id /\ allow_ipi(hsm_state[t])}

SendIpiCall(h, m) ==
    /\ pc[h] = "idle"
    /\ allow_ipi(hsm_state[h])
    /\ calls < MaxCalls
    /\ calls' = calls + 1
    /\ hart_mask' = [hart_mask EXCEPT ![h] = m]
    /\ hart_id' = [hart_id EXCEPT ![h] = NextTarget(m, 0)]
    /\ pc' = [pc EXCEPT ![h] = IF NextTarget(m, 0) = End THEN "ipi_ret" ELSE "ipi_check"]
    /\ elig0' = [elig0 EXCEPT ![h] = EligibleNow(m)]
    /\ UNCHANGED <<shared, hsmVars, timerVars, ctx, trap_ipi, ret, pulses, ored, published, acks,
                   sent, elig, inel, count_op, returned>>

IpiCheck(h) ==
    /\ pc[h] = "ipi_check"
    /\ LET t == hart_id[h] IN
        /\ elig' = [elig EXCEPT ![h] = IF allow_ipi(hsm_state[t]) THEN @ \cup {t} ELSE @]
        /\ inel' = [inel EXCEPT ![h] = IF allow_ipi(hsm_state[t]) THEN @ ELSE @ \cup {t}]
        /\ IF hsm_allows(t)
           THEN /\ pc' = [pc EXCEPT ![h] = "ipi_or"]
                /\ UNCHANGED hart_id
           ELSE IpiAdvance(h, t)
    /\ UNCHANGED <<shared, hsmVars, timerVars, hart_mask, ctx, trap_ipi, ret, calls,
                   pulses, ored, published, acks, sent, elig0, count_op, returned>>

IpiOr(h) ==
    /\ pc[h] = "ipi_or"
    /\ LET t == hart_id[h] IN
        /\ ipi_type' = [ipi_type EXCEPT ![t] = fetch_or(@, IPI_TYPE_SSOFT)]
        /\ ored' = [ored EXCEPT ![t] = BitOr(@, IPI_TYPE_SSOFT)]
        /\ sent' = [sent EXCEPT ![h] = @ \cup {t}]
        /\ IF need_msip(ipi_type[t])
           THEN /\ pc' = [pc EXCEPT ![h] = "ipi_msip"]
                /\ UNCHANGED hart_id
           ELSE IpiAdvance(h, t)
    /\ UNCHANGED <<msip, rfence_slot, sync_count, hsmVars, timerVars, hart_mask, ctx, trap_ipi,
                   ret, calls, pulses, published, acks, elig, inel, elig0, count_op, returned>>

IpiMsip(h) ==
    /\ pc[h] = "ipi_msip"
    /\ SetMsip(hart_id[h])
    /\ IpiAdvance(h, hart_id[h])
    /\ UNCHANGED <<ipi_type, rfence_slot, sync_count, hsmVars, timerVars, hart_mask, ctx, trap_ipi,
                   ret, calls, ored, published, acks, sent, elig, inel, elig0, count_op, returned>>

IpiRet(h) ==
    /\ pc[h] = "ipi_ret"
    /\ ret' = [ret EXCEPT ![h] = send_ipi_ret(hart_mask[h])]
    /\ pc' = [pc EXCEPT ![h] = "done"]
    /\ sent' = [sent EXCEPT ![h] = {}]
    /\ elig' = [elig EXCEPT ![h] = {}]
    /\ inel' = [inel EXCEPT ![h] = {}]
    /\ elig0' = [elig0 EXCEPT ![h] = {}]
    /\ UNCHANGED <<shared, hsmVars, timerVars, hart_mask, ctx, hart_id, trap_ipi, calls,
                   pulses, ored, published, acks, count_op, returned>>

\* The call is over: the supervisor resumes with the SbiRet.
Resume(h) ==
    /\ pc[h] = "done"
    /\ Idle(h)
    /\ ret' = [ret EXCEPT ![h] = None]
    /\ UNCHANGED <<shared, hsmVars, timerVars, trap_ipi, calls, history>>

----------------------------------------------------------------------------
\* Remote fence cells (sbi/rfence) and the handler that consumes them.

\* LocalRFenceCell::is_sync
is_sync(count) == count = 0

\* rfence_single_handler on hart h: take the request addressed to h, run its
\* operation, and acknowledge it to the hart that published it.
RfenceSingleHandler(h) ==
    IF rfence_slot[h] = None
    THEN UNCHANGED <<rfence_slot, sync_count, acks, count_op>>
    ELSE LET src == rfence_slot[h].src IN
         /\ rfence_slot' = [rfence_slot EXCEPT ![h] = None]
         /\ sync_count' = [sync_count EXCEPT ![src] = @ - 1]
         /\ acks' = [acks EXCEPT ![src][h] = @ + 1]
         /\ count_op' = [count_op EXCEPT ![src] = IF @ = "none" THEN "sub" ELSE @]

----------------------------------------------------------------------------
\* SbiIpi::send_ipi_by_fence

\* Faulty variant: the initiator signals itself like any other target.
fence_signals_self(t, current_hart) == TRUE

\* `if hart_id != current_hart`
fence_signals(t, current_hart) == t # current_hart

\* Faulty variant: the loop gives up once a hart of the mask is not eligible.
wait_done_or_gone(h) ==
    \/ sync_count[h] = 0
    \/ \E t \in hart_mask[h] \cap Harts : ~allow_ipi(hsm_state[t])

\* Faulty variant: the loop ends while one acknowledgement is still missing.
wait_done_early(h) == sync_count[h] <= 1

\* Faulty variant: the call returns without waiting.
wait_done_nowait(h) == TRUE

\* `while !rfence::local_rfence().unwrap().is_sync()`: the loop ends.
wait_done(h) == is_sync(sync_count[h])

\* Faulty variant: a mask that names no hart of the system is reported.
fence_ret_checked(m) == IF m \subseteq Harts THEN SbiRet_success(0) ELSE SbiRet_invalid_param

\* `SbiRet::success(0)`
fence_ret(m) == SbiRet_success(0)

\* The scan of send_ipi_by_fence moves on from id t.
FenceAdvance(h, t) ==
    /\ hart_id' = [hart_id EXCEPT ![h] = NextTarget(hart_mask[h], t + 1)]
    /\ pc' = [pc EXCEPT ![h] = IF NextTarget(hart_mask[h], t + 1) = End
                               THEN "f_wait" ELSE "f_check"]

FenceCall(h, m, c) ==
    /\ pc[h] = "idle"
    /\ allow_ipi(hsm_state[h])
    /\ calls < MaxCalls
    /\ calls' = calls + 1
    /\ hart_mask' = [hart_mask EXCEPT ![h] = m]
    /\ ctx' = [ctx EXCEPT ![h] = c]
    /\ hart_id' = [hart_id EXCEPT ![h] = NextTarget(m, 0)]
    /\ pc' = [pc EXCEPT ![h] = IF NextTarget(m, 0) = End THEN "f_wait" ELSE "f_check"]
    /\ UNCHANGED <<shared, hsmVars, timerVars, trap_ipi, ret, history>>

FenceCheck(h) ==
    /\ pc[h] = "f_check"
    /\ LET t == hart_id[h] IN
        /\ elig' = [elig EXCEPT ![h] = IF allow_ipi(hsm_state[t]) THEN @ \cup {t} ELSE @]
        /\ inel' = [inel EXCEPT ![h] = IF allow_ipi(hsm_state[t]) THEN @ ELSE @ \cup {t}]
        /\ IF hsm_allows(t) /\ remote_rfence(t) # <<>>
           THEN /\ pc' = [pc EXCEPT ![h] = "f_set"]
                /\ UNCHANGED hart_id
           ELSE FenceAdvance(h, t)
    /\ UNCHANGED <<shared, hsmVars, timerVars, hart_mask, ctx, trap_ipi, ret, calls,
                   pulses, ored, published, acks, sent, elig0, count_op, returned>>

\* remote.set(ctx)
FenceSet(h) ==
    /\ pc[h] = "f_set"
    /\ rfence_slot' = [rfence_slot EXCEPT ![hart_id[h]] = [ctx |-> ctx[h], src |-> h]]
    /\ pc' = [pc EXCEPT ![h] = "f_add"]
    /\ UNCHANGED <<ipi_type, msip, sync_count, hsmVars, timerVars, hart_mask, ctx, hart_id,
                   trap_ipi, ret, calls, history>>

\* local.add()
FenceAdd(h) ==
    /\ pc[h] = "f_add"
    /\ sync_count' = [sync_count EXCEPT ![h] = @ + 1]
    /\ published' = [published EXCEPT ![h] = @ \cup {hart_id[h]}]
    /\ count_op' = [count_op EXCEPT ![h] = IF @ = "none" THEN "add" ELSE @]
    /\ IF fence_signals(hart_id[h], h)
       THEN /\ pc' = [pc EXCEPT ![h] = "f_or"]
            /\ UNCHANGED hart_id
       ELSE FenceAdvance(h, hart_id[h])
    /\ UNCHANGED <<ipi_type, msip, rfence_slot, hsmVars, timerVars, hart_mask, ctx, trap_ipi,
                   ret, calls, pulses, ored, acks, sent, elig, inel, elig0, returned>>

FenceOr(h) ==
    /\ pc[h] = "f_or"
    /\ LET t == hart_id[h] IN
        /\ ipi_type' = [ipi_type EXCEPT ![t] = fetch_or(@, IPI_TYPE_FENCE)]
        /\ ored' = [ored EXCEPT ![t] = BitOr(@, IPI_TYPE_FENCE)]
        /\ IF need_msip(ipi_type[t])
           THEN /\ pc' = [pc EXCEPT ![h] = "f_msip"]
                /\ UNCHANGED hart_id
           ELSE FenceAdvance(h, t)
    /\ UNCHANGED <<msip, rfence_slot, sync_count, hsmVars, timerVars, hart_mask, ctx, trap_ipi,
                   ret, calls, pulses, published, acks, sent, elig, inel, elig0, count_op, returned>>

FenceMsip(h) ==
    /\ pc[h] = "f_msip"
    /\ SetMsip(hart_id[h])
    /\ FenceAdvance(h, hart_id[h])
    /\ UNCHANGED <<ipi_type, rfence_slot, sync_count, hsmVars, timerVars, hart_mask, ctx, trap_ipi,
                   ret, calls, ored, published, acks, sent, elig, inel, elig0, count_op, returned>>

\* The test of the wait loop.
FenceWait(h) ==
    /\ pc[h] = "f_wait"
    /\ pc' = [pc EXCEPT ![h] = IF wait_done(h) THEN "f_ret" ELSE "f_handle"]
    /\ UNCHANGED <<shared, hsmVars, timerVars, hart_mask, ctx, hart_id, trap_ipi, ret, calls, history>>

\* Faulty variant: the loop body acknowledges on the hart's own counter.
FenceHandle_local(h) ==
    /\ pc[h] = "f_handle"
    /\ IF rfence_slot[h] = None
       THEN UNCHANGED <<rfence_slot, sync_count, acks, count_op>>
       ELSE /\ rfence_slot' = [rfence_slot EXCEPT ![h] = None]
            /\ sync_count' = [sync_count EXCEPT ![h] = @ - 1]
            /\ acks' = [acks EXCEPT ![h][h] = @ + 1]
            /\ UNCHANGED count_op
    /\ pc' = [pc EXCEPT ![h] = "f_wait"]
    /\ UNCHANGED <<ipi_type, msip, hsmVars, timerVars, hart_mask, ctx, hart_id, trap_ipi,
                   ret, calls, pulses, ored, published, sent, elig, inel, elig0, returned>>

\* The body of the wait loop: trap::rfence_single_handler().
FenceHandle(h) ==
    /\ pc[h] = "f_handle"
    /\ RfenceSingleHandler(h)
    /\ pc' = [pc EXCEPT ![h] = "f_wait"]
    /\ UNCHANGED <<ipi_type, msip, hsmVars, timerVars, hart_mask, ctx, hart_id, trap_ipi, ret,
                   calls, pulses, ored, published, sent, elig, inel, elig0, returned>>

FenceRet(h) ==
    /\ pc[h] = "f_ret"
    /\ ret' = [ret EXCEPT ![h] = fence_ret(hart_mask[h])]
    /\ pc' = [pc EXCEPT ![h] = "done"]
    /\ published' = [published EXCEPT ![h] = {}]
    /\ acks' = [acks EXCEPT ![h] = [t \in Harts |-> 0]]
    /\ elig' = [elig EXCEPT ![h] = {}]
    /\ inel' = [inel EXCEPT ![h] = {}]
    /\ count_op' = [count_op EXCEPT ![h] = "none"]
    /\ returned' = returned \cup {h}
    /\ UNCHANGED <<shared, hsmVars, timerVars, hart_mask, ctx, hart_id, trap_ipi, calls,
                   pulses, ored, sent, elig0>>

----------------------------------------------------------------------------
\* The machine software interrupt of a hart (sbi/trap): the hart takes it
\* between calls, while its pending bit is set and it is running.

TrapEntry(h) ==
    /\ pc[h] = "idle"
    /\ msip[h]
    /\ allow_ipi(hsm_state[h])
    /\ pc' = [pc EXCEPT ![h] = "t_clear"]
    /\ pulses' = [pulses EXCEPT ![h] = 0]
    /\ UNCHANGED <<shared, hsmVars, timerVars, hart_mask, ctx, hart_id, trap_ipi, ret, calls,
                   ored, published, acks, sent, elig, inel, elig0, count_op, returned>>

\* ipi::clear_msip()
TrapClearMsip(h) ==
    /\ pc[h] = "t_clear"
    /\ msip' = [msip EXCEPT ![h] = FALSE]
    /\ pc' = [pc EXCEPT ![h] = "t_swap"]
    /\ UNCHANGED <<ipi_type, rfence_slot, sync_count, hsmVars, timerVars, hart_mask, ctx, hart_id,
                   trap_ipi, ret, calls, history>>

\* ipi::get_and_reset_ipi_type()
TrapSwap(h) ==
    /\ pc[h] = "t_swap"
    /\ trap_ipi' = [trap_ipi EXCEPT ![h] = ipi_type[h]]
    /\ ipi_type' = [ipi_type EXCEPT ![h] = swap_zero(@)]
    /\ ored' = [ored EXCEPT ![h] = 0]
    /\ pc' = [pc EXCEPT ![h] = "t_handle"]
    /\ UNCHANGED <<msip, rfence_slot, sync_count, hsmVars, timerVars, hart_mask, ctx, hart_id,
                   ret, calls, pulses, published, acks, sent, elig, inel, elig0, count_op, returned>>

\* The events of the swapped mask are handled: the supervisor software
\* interrupt is raised, the fence request is consumed.
TrapHandle(h) ==
    /\ pc[h] = "t_handle"
    /\ IF IPI_TYPE_FENCE \in Bits(trap_ipi[h])
       THEN RfenceSingleHandler(h)
       ELSE UNCHANGED <<rfence_slot, sync_count, acks, count_op>>
    /\ trap_ipi' = [trap_ipi EXCEPT ![h] = 0]
    /\ pc' = [pc EXCEPT ![h] = "idle"]
    /\ UNCHANGED <<ipi_type, msip, hsmVars, timerVars, hart_mask, ctx, hart_id, ret, calls,
                   pulses, ored, published, sent, elig, inel, elig0, returned>>

----------------------------------------------------------------------------
\* Timer (rustsbi::Timer for SbiIpi) and SbiIpi::clear.

\* hart_extension_probe(hart_id, Extension::Sstc)
hart_extension_probe(h) == h \in SstcHarts

\* Faulty variant: the compare slot is written on both paths.
set_timer_mtimecmp_always(h, old, stime_value) == stime_value

\* The compare slot of hart h after set_timer: write_mtimecmp on the path
\* without Sstc only.
set_timer_mtimecmp(h, old, stime_value) ==
    IF hart_extension_probe(h) THEN old ELSE stime_value

\* stimecmp after set_timer: stimecmp::set on the Sstc path only.
set_timer_stimecmp(h, old, stime_value) ==
    IF hart_extension_probe(h) THEN stime_value ELSE old

\* mip.STIP after set_timer: mip::clear_stimer on the path without Sstc only.
set_timer_stimer(h, old) == IF hart_extension_probe(h) THEN old ELSE FALSE

\* set_timer on hart h: the hart is in machine mode with interrupts off, its
\* compare slot and its CSRs are written by no other hart.
SetTimer(h, stime_value) ==
    /\ pc[h] = "idle"
    /\ allow_ipi(hsm_state[h])
    /\ timer_calls < MaxTimerCalls
    /\ timer_calls' = timer_calls + 1
    /\ mtimecmp' = [mtimecmp EXCEPT ![h] = set_timer_mtimecmp(h, @, stime_value)]
    /\ stimecmp' = [stimecmp EXCEPT ![h] = set_timer_stimecmp(h, @, stime_value)]
    /\ mip_stimer' = [mip_stimer EXCEPT ![h] = set_timer_stimer(h, @)]
    /\ mie_mtimer' = [mie_mtimer EXCEPT ![h] = TRUE]
    /\ set_timer_arg' = [hart |-> h, stime_value |-> stime_value]
    /\ UNCHANGED <<shared, hsmVars, pc, hart_mask, ctx, hart_id, trap_ipi, ret, calls,
                   history>>

\* The machine timer interrupt of hart h: the supervisor timer interrupt is
\* made pending and the machine timer interrupt is masked until it is re-armed.
TimerPending(h) ==
    /\ pc[h] = "idle"
    /\ mie_mtimer[h]
    /\ mip_stimer' = [mip_stimer EXCEPT ![h] = TRUE]
    /\ mie_mtimer' = [mie_mtimer EXCEPT ![h] = FALSE]
    /\ UNCHANGED <<shared, hsmVars, mtimecmp, stimecmp, timer_calls, set_timer_arg, pc,
                   hart_mask, ctx, hart_id, trap_ipi, ret, calls, history>>

\* Faulty variant: the compare value is the largest 32-bit value.
clear_mtimecmp_u32 == <<0, 0, LimbMax, LimbMax>>

\* `u64::MAX` of clear
clear_mtimecmp == U64_MAX

\* clear_all() on hart h: ipi.clear() begins.
ClearAll(h) ==
    /\ pc[h] = "idle"
    /\ timer_calls < MaxTimerCalls
    /\ timer_calls' = timer_calls + 1
    /\ pc' = [pc EXCEPT ![h] = "clr_msip"]
    /\ UNCHANGED <<shared, hsmVars, mtimecmp, stimecmp, mip_stimer, mie_mtimer,
                   set_timer_arg, hart_mask, ctx, hart_id, trap_ipi, ret, calls, history>>

\* ipi_dev.clear_msip(hart_id)
ClearMsip(h) ==
    /\ pc[h] = "clr_msip"
    /\ msip' = [msip EXCEPT ![h] = FALSE]
    /\ pc' = [pc EXCEPT ![h] = "clr_cmp"]
    /\ UNCHANGED <<ipi_type, rfence_slot, sync_count, hsmVars, timerVars, hart_mask, ctx,
                   hart_id, trap_ipi, ret, calls, history>>

\* ipi_dev.write_mtimecmp(hart_id, u64::MAX), and the call is over.
ClearMtimecmp(h) ==
    /\ pc[h] = "clr_cmp"
    /\ mtimecmp' = [mtimecmp EXCEPT ![h] = clear_mtimecmp]
    /\ pc' = [pc EXCEPT ![h] = "idle"]
    /\ UNCHANGED <<shared, hsmVars, stimecmp, mip_stimer, mie_mtimer, timer_calls,
                   set_timer_arg, hart_mask, ctx, hart_id, trap_ipi, ret, calls, history>>

----------------------------------------------------------------------------

Init ==
    /\ hsm_state \in {f \in [Harts -> {"Started", "Stopped"}] : \A h \in Callers : f[h] = "Started"}
    /\ ipi_type = [h \in Harts |-> 0]
    /\ msip = [h \in Harts |-> FALSE]
    /\ rfence_slot = [h \in Harts |-> None]
    /\ sync_count = [h \in Harts |-> 0]
    /\ pc = [h \in Harts |-> "idle"]
    /\ hart_mask = [h \in Harts |-> {}]
    /\ ctx = [h \in Harts |-> 0]
    /\ hart_id = [h \in Harts |-> 0]
    /\ trap_ipi = [h \in Harts |-> 0]
    /\ ret = [h \in Harts |-> None]
    /\ calls = 0
    /\ hsm_steps = 0
    /\ hsm_cas = None
    /\ pulses = [h \in Harts |-> 0]
    /\ ored = [h \in Harts |-> 0]
    /\ published = [h \in Harts |-> {}]
    /\ acks = [i \in Harts |-> [t \in Harts |-> 0]]
    /\ sent = [h \in Harts |-> {}]
    /\ elig = [h \in Harts |-> {}]
    /\ inel = [h \in Harts |-> {}]
    /\ elig0 = [h \in Harts |-> {}]
    /\ count_op = [h \in Harts |-> "none"]
    /\ returned = {}
    /\ mtimecmp = [h \in Harts |-> U64_ZERO]
    /\ stimecmp = [h \in Harts |-> U64_ZERO]
    /\ mip_stimer = [h \in Harts |-> FALSE]
    /\ mie_mtimer = [h \in Harts |-> FALSE]
    /\ timer_calls = 0
    /\ set_timer_arg = None

Next ==
    \/ \E h \in Callers, m \in Masks : SendIpiCall(h, m)
    \/ \E h \in Harts : IpiCheck(h)
    \/ \E h \in Harts : IpiOr(h)
    \/ \E h \in Harts : IpiMsip(h)
    \/ \E h \in Harts : IpiRet(h)
    \/ \E h \in Callers, m \in Masks, c \in Ctxs : FenceCall(h, m, c)
    \/ \E h \in Harts : FenceCheck(h)
    \/ \E h \in Harts : FenceSet(h)
    \/ \E h \in Harts : FenceAdd(h)
    \/ \E h \in Harts : FenceOr(h)
    \/ \E h \in Harts : FenceMsip(h)
    \/ \E h \in Harts : FenceWait(h)
    \/ \E h \in Harts : FenceHandle(h)
    \/ \E h \in Harts : FenceRet(h)
    \/ \E h \in Harts : Resume(h)
    \/ \E h \in Harts : TrapEntry(h)
    \/ \E h \in Harts : TrapClearMsip(h)
    \/ \E h \in Harts : TrapSwap(h)
    \/ \E h \in Harts : TrapHandle(h)
    \/ \E h \in Harts, e \in HsmEdges : HsmTransition(h, e[1], e[2])

Spec == Init /\ [][Next]_vars

\* The timer calls of every hart, while send_ipi calls pulse pending lines.
NextTimer ==
    \/ \E h \in Harts, v \in Deadlines : SetTimer(h, v)
    \/ \E h \in Harts : TimerPending(h)
    \/ \E h \in Harts : ClearAll(h)
    \/ \E h \in Harts : ClearMsip(h)
    \/ \E h \in Harts : ClearMtimecmp(h)
    \/ \E h \in Callers, m \in Masks : SendIpiCall(h, m)
    \/ \E h \in Harts : IpiCheck(h)
    \/ \E h \in Harts : IpiOr(h)
    \/ \E h \in Harts : IpiMsip(h)
    \/ \E h \in Harts : IpiRet(h)
    \/ \E h \in Harts : Resume(h)

SpecTimer == Init /\ [][NextTimer]_vars

\* A step of hart h inside a call or a trap handler.
HartStep(h) ==
    \/ IpiCheck(h) \/ IpiOr(h) \/ IpiMsip(h) \/ IpiRet(h) \/ Resume(h)
    \/ FenceCheck(h) \/ FenceSet(h) \/ FenceAdd(h) \/ FenceOr(h) \/ FenceMsip(h)
    \/ FenceWait(h) \/ FenceHandle(h) \/ FenceRet(h)
    \/ TrapEntry(h) \/ TrapClearMsip(h) \/ TrapSwap(h) \/ TrapHandle(h)

\* The signalling protocol among harts that stay eligible: send_ipi from every
\* caller, fences from one initiator, and every hart keeps running (a hart
\* is a hardware thread: a step it can take is taken).
FenceCallers == {1}

NextSignal ==
    \/ \E h \in Callers, m \in Masks : SendIpiCall(h, m)
    \/ \E h \in FenceCallers, m \in Masks, c \in Ctxs : FenceCall(h, m, c)
    \/ \E h \in Harts : HartStep(h)

SpecSignal == Init /\ [][NextSignal]_vars /\ \A h \in Harts : WF_vars(HartStep(h))

\* The hart state machine alone, under every transition attempt.
NextHsm == \E h \in Harts, e \in HsmEdges : HsmAttempt(h, e[1], e[2])

SpecHsm == Init /\ [][NextHsm]_vars

----------------------------------------------------------------------------
\* Where a hart is, by the call it serves.

IpiPcs == {"ipi_check", "ipi_or", "ipi_msip", "ipi_ret"}
FencePcs == {"f_check", "f_set", "f_add", "f_or", "f_msip", "f_wait", "f_handle", "f_ret"}
TrapPcs == {"t_clear", "t_swap", "t_handle"}

\* C1: send_ipi_by_fence leaves its wait loop only when every target it
\* published to (each target of the mask that was eligible) has consumed the
\* published descriptor exactly once, no other hart has, and the initiator's
\* rendezvous counter is zero then.
C1_ReturnAfterEveryAck ==
    \A h \in Harts :
        pc[h] = "f_ret" =>
            /\ sync_count[h] = 0
            /\ published[h] = elig[h]
            /\ \A t \in Harts : acks[h][t] = IF t \in published[h] THEN 1 ELSE 0

\* A fence over two eligible targets returns while the other caller is in a
\* fence of its own.
C1_Witness ==
    \E h \in Harts, g \in Harts :
        /\ g # h
        /\ pc[h] = "f_ret"
        /\ Cardinality(published[h]) = 2
        /\ pc[g] \in FencePcs
        /\ published[g] # {}

\* The harts whose rfence slot holds a descriptor published by initiator h.
Outstanding(h) == {t \in Harts : rfence_slot[t] # None /\ rfence_slot[t].src = h}

InWaitLoop(h) == pc[h] \in {"f_wait", "f_handle"}

\* C2: when a second initiator publishes to a target before the target has
\* consumed the first initiator's descriptor, the slot holds the second
\* descriptor only, and the counters of both initiators still reach zero.
\* A counter is decremented only by the consumption of a descriptor of its
\* initiator, so it can reach zero only if every publish it counts is still
\* in a slot: an initiator in its wait loop never counts more than that.
C2_BothCountersReachZero ==
    \A h \in Harts :
        InWaitLoop(h) => sync_count[h] <= Cardinality(Outstanding(h))

\* Initiator h can never leave its wait loop: its counter is not zero and no
\* slot holds a descriptor of h whose consumption would decrement it.
Stuck(h) == InWaitLoop(h) /\ sync_count[h] # 0 /\ Outstanding(h) = {}

\* C3: two harts that fence each other at the same time both return: while
\* both wait, each with the other among its published targets, neither is
\* left with a nonzero counter that nothing can decrement any more.
C3_MutualFencesReturn ==
    \A a \in Harts, b \in Harts :
        (a # b /\ InWaitLoop(a) /\ InWaitLoop(b)
              /\ b \in published[a] /\ a \in published[b])
            => ~Stuck(a) /\ ~Stuck(b)

\* Hart h takes the step (only h moves its own pc and scan variable).
Acts(h) == <<pc[h], hart_id[h]>> # <<pc'[h], hart_id'[h]>>

\* The ids of mask m the scan must examine, stated from the interface.
Addressed(m) == {t \in m : t \in Harts /\ t <= max_hart_id}

\* C4 as stated: at its return send_ipi has OR-ed SOFTWARE_INTERRUPT into
\* exactly the harts of the mask that were eligible when the call began.
C4_ExactlyEligibleAtCall ==
    \A h \in Harts : pc[h] = "ipi_ret" => sent[h] = elig0[h]

\* C4, amended: send_ipi examines every hart of the mask within
\* 0..=max_hart_id, ORs SOFTWARE_INTERRUPT into exactly those that were
\* eligible when the scan examined them, and no step of it changes any
\* other event mask or any other bit.
C4_ExactlyEligibleAtCheck ==
    /\ [](\A h \in Harts :
            pc[h] = "ipi_ret" =>
                /\ sent[h] = elig[h]
                /\ elig[h] \cup inel[h] = Addressed(hart_mask[h]))
    /\ [][\A h \in Harts :
            (pc[h] \in IpiPcs /\ Acts(h)) =>
                \A u \in Harts :
                    ipi_type'[u] = IF pc[h] = "ipi_or" /\ u = hart_id[h]
                                   THEN BitOr(ipi_type[u], IPI_TYPE_SSOFT)
                                   ELSE ipi_type[u]]_vars

\* send_ipi over a mask of two harts, one found eligible and signalled, one
\* found ineligible and left alone, is about to return.
C4_Witness ==
    \E h \in Harts :
        /\ pc[h] = "ipi_ret"
        /\ sent[h] # {} /\ inel[h] # {}
        /\ \A t \in sent[h] : IPI_TYPE_SSOFT \in Bits(ipi_type[t])
        /\ \E u \in inel[h] : ipi_type[u] = 0

\* The steps of a sender that write for the target of the scan.
WritePcs == {"ipi_or", "ipi_msip", "f_set", "f_add", "f_or", "f_msip"}

\* C5: a sender whose eligibility check finds the target Stopped or
\* StopPending moves on to the next id and writes nothing: no event bit, no
\* rfence slot, no counter, no pending bit; and a sender writes for a target
\* only after a check that found it eligible.
C5_HsmGating ==
    /\ [][\A h \in Harts :
            (pc[h] \in {"ipi_check", "f_check"} /\ Acts(h)
                /\ hsm_state[hart_id[h]] \in {"Stopped", "StopPending"})
            => /\ pc'[h] \notin WritePcs
               /\ hart_id'[h] > hart_id[h]
               /\ shared' = shared
               /\ pulses' = pulses]_vars
    /\ [](\A h \in Harts : pc[h] \in WritePcs => hart_id[h] \in elig[h])

\* A fence has skipped a StopPending and a Stopped target of its mask; their
\* event masks, slots and pending bits are untouched and it counts neither.
C5_Witness ==
    \E h \in Harts, t \in Harts, u \in Harts :
        /\ pc[h] = "f_wait"
        /\ t \in inel[h] /\ hsm_state[t] = "StopPending"
        /\ u \in inel[h] /\ hsm_state[u] = "Stopped"
        /\ ipi_type[t] = 0 /\ rfence_slot[t] = None /\ ~msip[t]
        /\ ipi_type[u] = 0 /\ rfence_slot[u] = None /\ ~msip[u]
        /\ sync_count[h] = 0

\* Senders that have seen a zero mask on hart t and are about to pulse it.
AboutToPulse(t) == {h \in Harts : pc[h] \in {"ipi_msip", "f_msip"} /\ hart_id[h] = t}

\* C6: between two trap entries of a hart (and before its first) its
\* pending line is pulsed at most once, whatever the number of signals and
\* senders; the pulses sent and the senders about to pulse number at most
\* one, and a sender is about to pulse only after its OR saw a zero mask.
C6_OnePulsePerTrap ==
    /\ [](\A t \in Harts : pulses[t] + Cardinality(AboutToPulse(t)) <= 1)
    /\ [][\A h \in Harts :
            (Acts(h) /\ pc'[h] \in {"ipi_msip", "f_msip"})
                => /\ pc[h] \in {"ipi_or", "f_or"}
                   /\ ipi_type[hart_id[h]] = 0]_vars

\* Both bits were sent to a hart since its last trap entry, by a send_ipi and
\* by a fence, and its line was pulsed once.
C6_Witness ==
    \E t \in Harts :
        /\ pulses[t] = 1
        /\ ipi_type[t] = IPI_TYPE_SSOFT + IPI_TYPE_FENCE
        /\ AboutToPulse(t) = {}
        /\ \A h \in Harts : pc[h] \notin WritePcs

\* C7: a fence whose mask includes the initiator writes the initiator's own
\* slot and counts it, never sets a bit of the initiator's own event mask and
\* never pulses the initiator's own pending line, and the initiator has
\* consumed its own descriptor itself when the wait loop ends.
C7_SelfTarget ==
    /\ [][\A h \in Harts :
            (pc[h] \in FencePcs /\ Acts(h)) =>
                /\ ipi_type'[h] = ipi_type[h]
                /\ msip'[h] = msip[h]
                /\ pulses'[h] = pulses[h]
                /\ (pc[h] = "f_set" /\ hart_id[h] = h)
                       => rfence_slot'[h] = [ctx |-> ctx[h], src |-> h]
                /\ (pc[h] = "f_add" /\ hart_id[h] = h)
                       => /\ sync_count'[h] = sync_count[h] + 1
                          /\ pc'[h] \notin {"f_or", "f_msip"}]_vars
    /\ [](\A h \in Harts :
            (pc[h] = "f_ret" /\ h \in published[h]) => acks[h][h] = 1)

\* A fence over the initiator and another hart is about to return: the
\* initiator has served itself, its event mask and pending line are clear.
C7_Witness ==
    \E h \in Harts :
        /\ pc[h] = "f_ret"
        /\ h \in published[h] /\ published[h] # {h}
        /\ acks[h][h] = 1
        /\ ipi_type[h] = 0 /\ ~msip[h] /\ pulses[h] = 0

\* C8: every call returns SbiRet::success(0), whatever its mask names.
C8_AlwaysSuccess ==
    \A h \in Harts : pc[h] = "done" => ret[h] = [error |-> SBI_SUCCESS, value |-> 0]

\* A send_ipi and a fence have returned success for masks that name an id
\* that is no hart, an id past max_hart_id, and a hart that is not eligible.
C8_Witness ==
    \E h \in Harts, g \in Harts :
        /\ h # g
        /\ pc[h] = "done" /\ pc[g] = "done"
        /\ ctx[h] = 0 /\ ctx[g] # 0
        /\ ret[h].error = SBI_SUCCESS /\ ret[g].error = SBI_SUCCESS
        /\ NoHarts \subseteq hart_mask[h] /\ NoHarts \subseteq hart_mask[g]
        /\ \E t \in hart_mask[g] \cap Harts : ~allow_ipi(hsm_state[t])

\* C9: the event mask of a hart always equals the union of the bits OR-ed
\* into it since its owner's last reset; it changes only by gaining bits or,
\* in the owner's swap, by going to zero at once, and the swap returns the
\* whole mask.
C9_EventMaskDiscipline ==
    /\ [](\A t \in Harts : ipi_type[t] = ored[t])
    /\ [][\A t \in Harts :
            ipi_type'[t] # ipi_type[t] =>
                \/ /\ Bits(ipi_type[t]) \subseteq Bits(ipi_type'[t])
                   /\ \E h \in Harts : pc[h] \in {"ipi_or", "f_or"} /\ hart_id[h] = t /\ Acts(h)
                \/ /\ ipi_type'[t] = 0
                   /\ pc[t] = "t_swap" /\ pc'[t] = "t_handle"
                   /\ trap_ipi'[t] = ipi_type[t]]_vars

\* The owner's swap has returned the bit of one sender, and another sender
\* has already OR-ed its bit into the cleared mask, where it stays for the
\* next reset.
C9_Witness ==
    \E t \in Harts :
        /\ pc[t] = "t_handle"
        /\ trap_ipi[t] = IPI_TYPE_SSOFT
        /\ ipi_type[t] = IPI_TYPE_FENCE
        /\ ored[t] = IPI_TYPE_FENCE

\* C10: the stored lifecycle state changes only by a transition attempt that
\* found its expected source state, along an edge of the graph; an attempt
\* that finds any other state fails and leaves every stored state as it was.
C10_HsmCompareAndSwap ==
    /\ [][\A h \in Harts :
            hsm_state'[h] # hsm_state[h] =>
                /\ <<hsm_state[h], hsm_state'[h]>> \in HsmEdges
                /\ hsm_steps' = hsm_steps + 1
                /\ hsm_cas' = [hart |-> h, from |-> hsm_state[h],
                               to |-> hsm_state'[h], ok |-> TRUE]]_vars
    /\ [][hsm_steps' # hsm_steps =>
            IF hsm_state[hsm_cas'.hart] = hsm_cas'.from
            THEN hsm_cas'.ok /\ hsm_state'[hsm_cas'.hart] = hsm_cas'.to
            ELSE ~hsm_cas'.ok /\ hsm_state' = hsm_state]_vars

\* A hart has been started (Stopped -> StartPending -> Started) and a stop
\* of a hart that was not Started has failed.
C10_Witness ==
    /\ hsm_steps = MaxHsmAttempts
    /\ hsm_cas.from = "Started" /\ hsm_cas.to = "StopPending" /\ ~hsm_cas.ok
    /\ hsm_state[hsm_cas.hart] = "Suspended"

\* A step of set_timer (the only step that changes set_timer_arg or sets it
\* again) and a step of clear().
IsSetTimer == timer_calls' # timer_calls /\ pc' = pc
ClearPcs == {"clr_msip", "clr_cmp"}

\* The timer state of every hart but h is left as it was.
TimerFrame(h) ==
    \A g \in Harts \ {h} :
        /\ mtimecmp'[g] = mtimecmp[g] /\ stimecmp'[g] = stimecmp[g]
        /\ mip_stimer'[g] = mip_stimer[g] /\ mie_mtimer'[g] = mie_mtimer[g]

\* C11: set_timer(D) on a hart without Sstc leaves the hart's compare slot
\* equal to D and its pending supervisor timer flag cleared; on a hart with
\* Sstc it leaves the compare slot as it was (and D in stimecmp); on both
\* paths the machine timer interrupt is enabled when the call ends.
C11_SetTimer ==
    [][IsSetTimer =>
        LET h == set_timer_arg'.hart
            D == set_timer_arg'.stime_value
        IN  /\ mie_mtimer'[h]
            /\ IF h \in SstcHarts
               THEN /\ mtimecmp'[h] = mtimecmp[h]
                    /\ stimecmp'[h] = D
               ELSE /\ mtimecmp'[h] = D
                    /\ ~mip_stimer'[h]
            /\ TimerFrame(h)]_vars

\* Both paths were taken: a hart without Sstc armed its compare slot, and a
\* hart with Sstc armed stimecmp and left its compare slot alone.
C11_Witness ==
    \E h \in Harts \ SstcHarts, g \in SstcHarts :
        /\ timer_calls = MaxTimerCalls
        /\ mtimecmp[h] \notin {U64_ZERO, U64_MAX} /\ ~mip_stimer[h] /\ mie_mtimer[h]
        /\ stimecmp[g] = U64_MAX /\ mtimecmp[g] = U64_ZERO /\ mie_mtimer[g]
        /\ set_timer_arg.hart = g

\* C12 as stated: when clear_all() ends on hart h, the compare slot of h is
\* u64::MAX and the pending bit of h is clear, and no other hart's compare
\* slot or pending bit was changed by it.
C12_ClearAllLeavesNothingPending ==
    [][\A h \in Harts :
        (pc[h] = "clr_cmp" /\ pc'[h] = "idle") =>
            /\ mtimecmp'[h] = U64_MAX
            /\ ~msip'[h]
            /\ \A g \in Harts \ {h} :
                   mtimecmp'[g] = mtimecmp[g] /\ msip'[g] = msip[g]]_vars

\* C12, amended: clear_all() on hart h clears the pending bit of h and then
\* sets the compare slot of h to u64::MAX; neither step changes another
\* hart's compare slot or pending bit; between the two steps the pending bit
\* of h changes only by a sender's pulse, so when the call ends the slot is
\* u64::MAX and the bit is clear unless a sender pulsed it after the clear.
C12_ClearAllSteps ==
    /\ [][\A h \in Harts :
            (pc[h] \in ClearPcs /\ pc'[h] # pc[h]) =>
                /\ \A g \in Harts \ {h} :
                       mtimecmp'[g] = mtimecmp[g] /\ msip'[g] = msip[g]
                /\ pc[h] = "clr_msip" =>
                       ~msip'[h] /\ mtimecmp'[h] = mtimecmp[h] /\ pc'[h] = "clr_cmp"
                /\ pc[h] = "clr_cmp" =>
                       /\ mtimecmp'[h] = U64_MAX /\ msip'[h] = msip[h]
                       /\ pc'[h] = "idle"]_vars
    /\ [][\A h \in Harts :
            (pc[h] = "clr_cmp" /\ msip'[h] # msip[h]) =>
                /\ msip'[h]
                /\ \E s \in Harts \ {h} :
                       pc[s] = "ipi_msip" /\ hart_id[s] = h /\ Acts(s)]_vars

\* clear_all() on a hart whose timer was armed has cleared the pending bit
\* and is about to write the compare slot; a sender has pulsed the hart
\* since, and pulsed another hart too.
C12_Witness ==
    \E h \in Harts, g \in Harts :
        /\ g # h
        /\ pc[h] = "clr_cmp"
        /\ mtimecmp[h] \notin {U64_ZERO, U64_MAX}
        /\ msip[h] /\ msip[g]

\* The sum of f over the set S.
RECURSIVE SumOver(_, _)
SumOver(f, S) ==
    IF S = {} THEN 0
    ELSE LET x == CHOOSE y \in S : TRUE IN f[x] + SumOver(f, S \ {x})

\* The acknowledgements initiator h has received in its current call.
Acked(h) == SumOver(acks[h], Harts)

\* C13 as stated: send_ipi_by_fence starts by resetting the initiator's own
\* rendezvous counter: in a call, the first operation on the initiator's
\* counter is that reset.
C13_CallStartsWithReset ==
    \A h \in Harts : pc[h] \in FencePcs => count_op[h] = "reset"

\* C13, amended: send_ipi_by_fence does not write the initiator's counter
\* before its publish loop.  The counter is zero whenever a call begins (no
\* call of the hart returned before it was zero, and nothing changes it
\* between calls), so during the call the counter is the number of targets
\* this call has published less the acknowledgements it has received.
C13_CounterZeroAtCall ==
    /\ [](\A h \in Harts :
            pc[h] \notin FencePcs => sync_count[h] = 0 /\ count_op[h] = "none")
    /\ [](\A h \in Harts :
            pc[h] \in FencePcs =>
                sync_count[h] = Cardinality(published[h]) - Acked(h))
    /\ [][\A h \in Harts :
            (pc[h] = "idle" /\ pc'[h] \in FencePcs) => sync_count' = sync_count]_vars

\* A hart that has returned from a broadcast is past the publish loop of its
\* next one: two targets published, none has acknowledged, the counter is 2.
C13_Witness ==
    \E h \in Harts :
        /\ h \in returned
        /\ pc[h] = "f_wait"
        /\ Cardinality(published[h]) = 2
        /\ Acked(h) = 0
        /\ sync_count[h] = 2

\* C14: a pass of the wait loop of initiator h that finds a request of
\* another initiator g decrements the counter of g by one and leaves the
\* counter of h (and every other counter) as it was; and whenever a counter
\* goes down, it goes down by one, by a hart consuming from its own slot a
\* descriptor that the counter's initiator wrote there in its current call.
C14_AcknowledgeThePublisher ==
    /\ [][\A h \in Harts :
            (pc[h] = "f_handle" /\ Acts(h) /\ rfence_slot[h] # None) =>
                LET g == rfence_slot[h].src IN
                    /\ sync_count'[g] = sync_count[g] - 1
                    /\ \A i \in Harts \ {g} : sync_count'[i] = sync_count[i]
                    /\ rfence_slot'[h] = None]_vars
    /\ [][\A i \in Harts :
            sync_count'[i] < sync_count[i] =>
                /\ sync_count'[i] = sync_count[i] - 1
                /\ \E t \in Harts :
                    /\ pc[t] \in {"f_handle", "t_handle"} /\ Acts(t)
                    /\ rfence_slot[t] # None /\ rfence_slot[t].src = i
                    /\ rfence_slot'[t] = None
                    /\ pc[i] \in FencePcs
                    /\ \/ t \in published[i]
                       \/ pc[i] = "f_add" /\ hart_id[i] = t]_vars

\* Initiator h, still waiting for its own targets, has served the request of
\* initiator g in its wait loop (the FENCE bit g sent it is still in its
\* event mask): g has its acknowledgement, the counter of h is still up.
C14_Witness ==
    \E h \in Harts, g \in Harts :
        /\ g # h
        /\ InWaitLoop(h) /\ sync_count[h] > 0
        /\ acks[g][h] = 1 /\ rfence_slot[h] = None
        /\ IPI_TYPE_FENCE \in Bits(ipi_type[h])
        /\ pc[g] \in FencePcs /\ sync_count[g] = 0

\* Initiator h is in its wait loop for target t, which it published to and
\* which has not consumed the descriptor and is not eligible (so it takes no
\* trap).
WaitsForGone(h, t) ==
    /\ InWaitLoop(h)
    /\ t \in published[h] /\ t # h
    /\ acks[h][t] = 0
    /\ ~allow_ipi(hsm_state[t])

\* C15: there is no timeout.  While a target that passed the eligibility
\* check and was published to is not eligible and has not consumed the
\* descriptor, the initiator's counter is not zero, and no step of any hart
\* takes the initiator out of its wait loop: only the target's lifecycle
\* state changing again can end the wait.
C15_NoTimeout ==
    /\ [](\A h \in Harts, t \in Harts : WaitsForGone(h, t) => sync_count[h] > 0)
    /\ [][\A h \in Harts, t \in Harts :
            (WaitsForGone(h, t) /\ hsm_state'[t] = hsm_state[t])
                => WaitsForGone(h, t)']_vars

\* The target left the Started state after the initiator's check; the
\* initiator has published to it, signalled it and pulsed it, and spins.
C15_Witness ==
    \E h \in Harts, t \in Harts :
        /\ WaitsForGone(h, t)
        /\ hsm_steps = 1 /\ hsm_state[t] \in {"StopPending", "SuspendPending"}
        /\ pc[h] = "f_handle"
        /\ msip[t] /\ IPI_TYPE_FENCE \in Bits(ipi_type[t])
        /\ rfence_slot[t] = [ctx |-> ctx[h], src |-> h]

C17_NoUnderflow ==
    \A h \in Harts :
        /\ Acked(h) <= Cardinality(published[h])
        /\ sync_count[h] >= 0

\* C18: publish before signal.  For a remote target the initiator writes
\* the slot, then counts the target, then ORs FENCE into the target's event
\* mask, then (if the mask was zero) pulses the target's line; so whenever a
\* fence is about to OR or to pulse, it has counted the target, and whenever
\* it is about to pulse, the target's event mask holds FENCE.
C18_PublishBeforeSignal ==
    /\ [](\A h \in Harts :
            pc[h] \in {"f_or", "f_msip"} =>
                hart_id[h] \in published[h] /\ hart_id[h] # h)
    /\ [](\A h \in Harts :
            pc[h] = "f_msip" => IPI_TYPE_FENCE \in Bits(ipi_type[hart_id[h]]))
    /\ [][\A h \in Harts :
            Acts(h) =>
                /\ pc'[h] = "f_add" =>
                       /\ pc[h] = "f_set"
                       /\ rfence_slot'[hart_id[h]] = [ctx |-> ctx[h], src |-> h]
                /\ pc'[h] = "f_or" =>
                       /\ pc[h] = "f_add"
                       /\ sync_count'[h] = sync_count[h] + 1
                /\ pc'[h] = "f_msip" =>
                       /\ pc[h] = "f_or"
                       /\ IPI_TYPE_FENCE \in Bits(ipi_type'[hart_id[h]])
                       /\ msip' = msip
                /\ pc[h] = "f_msip" => msip'[hart_id[h]]]_vars

\* A fence is about to pulse a remote target: the target's slot holds the
\* descriptor, the counter counts the target, the target's mask holds FENCE
\* and its line is not yet set.
C18_Witness ==
    \E h \in Harts :
        /\ pc[h] = "f_msip"
        /\ rfence_slot[hart_id[h]] = [ctx |-> ctx[h], src |-> h]
        /\ sync_count[h] = Cardinality(published[h])
        /\ ipi_type[hart_id[h]] = IPI_TYPE_FENCE
        /\ ~msip[hart_id[h]]

\* C19: a send_ipi_by_fence whose scan finds no eligible target (an empty
\* mask, ids that are no harts, harts that are not eligible) writes no rfence
\* slot, no event mask, no counter and no pending line, and it leaves its
\* wait loop at the first test, whatever the hart has broadcast before.
C19_NoTargetNoEffect ==
    /\ [][\A h \in Harts :
            (Acts(h) /\ (pc[h] \in FencePcs \/ pc'[h] \in FencePcs)
                /\ elig[h] = {} /\ elig'[h] = {})
            => shared' = shared /\ pulses' = pulses]_vars
    /\ [](\A h \in Harts :
            (pc[h] \in {"f_wait", "f_handle", "f_ret"} /\ elig[h] = {}) =>
                /\ published[h] = {}
                /\ sync_count[h] = 0
                /\ pc[h] # "f_handle")

\* A hart that has completed a broadcast before returns from a fence whose
\* mask names an id that is no hart, an id past max_hart_id and a hart that
\* is not eligible; no slot, mask or line holds anything.
C19_Witness ==
    \E h \in returned :
        /\ pc[h] = "f_ret"
        /\ hart_mask[h] = NoHarts \cup {max_hart_id}
        /\ elig[h] = {} /\ inel[h] = {max_hart_id}
        /\ \A t \in Harts : rfence_slot[t] = None /\ ipi_type[t] = 0 /\ ~msip[t]

====
